---- MODULE Spec2Model ----
(***************************************************************************)
(* TaskFlow (mcp-taskflow): the status-transition tools for Features and   *)
(* Tasks, the session tools and the tracking tools, over the relational    *)
(* store defined by the supabase migrations.                               *)
(*                                                                         *)
(* Time is a logical clock `now` counted in minutes.  A tool call of one   *)
(* caller is one atomic action (sequential request/response).  A call that *)
(* writes to the store does so at a fresh instant (CallTime); Tick lets    *)
(* time pass between calls.  Calls of several callers interleave at the    *)
(* round trips to the store: such a call is an action for its reads and an *)
(* action for its write, with the call in flight kept in `calls`.          *)
(***************************************************************************)
EXTENDS Integers, Sequences, FiniteSets, TLC

VARIABLES tasks, features, sessions, file_changes, checkpoints, snapshots,
          decisions, scope_validations, now, response, calls

vars == <<tasks, features, sessions, file_changes, checkpoints, snapshots,
          decisions, scope_validations, now, response, calls>>

(* ------------------------------ bounds --------------------------------- *)

\* last value of the logical clock: no write and no Tick happens after it
MaxTime == 3
\* most sessions ever initialized
MaxSessions == 2

(* --------------------------- value domains ----------------------------- *)

\* SQL NULL in a column
Null == "<null>"
\* a parameter the caller left out (JavaScript undefined)
Undefined == "<undefined>"

\* SQL NULL in a timestamp column (timestamps are numbers of minutes)
NullTime == -1

\* JavaScript `!x` for a string-or-missing value
Falsy(x) == x \in {Undefined, Null, ""}

feature_status == {"planned", "backlog", "ready", "in_progress", "blocked", "on_hold",
                   "in_review", "completed", "wont_do", "abandoned", "archived"}

task_status == {"backlog", "ready", "blocked", "on_hold", "in_progress", "in_review",
                "needs_revision", "completed", "wont_do", "abandoned", "archived"}

\* rows present in the store: two tasks of feature f1, two features
TaskIds == {"t1", "t2"}
FeatureIds == {"f1", "f2"}

\* the names the two tasks were created with
TaskNames == [t \in TaskIds |-> IF t = "t1" THEN "Add coupon field" ELSE "Apply coupon"]

\* ids a caller may pass: the existing ones and one that names no row
TaskIdArgs == TaskIds \cup {"t9"}
FeatureIdArgs == FeatureIds \cup {"f9"}

\* updateTaskStatus / updateFeatureStatus parameters
TaskStatusArgs == {"blocked", "in_progress", "completed"}
FeatureStatusArgs == {"blocked", "completed"}
BlockingReasonArgs == {Undefined, "dependency", "waiting"}
\* blockedById: left out, the id of a row of the same kind, or an id that names no
\* row of that kind (it names a row of the other kind)
TaskBlockedByArgs == {Undefined} \cup TaskIds \cup {"f1"}
FeatureBlockedByArgs == {Undefined} \cup FeatureIds \cup {"t1"}

\* task ids are generated: the n-th task gets the n-th token
TaskTokens == <<"t1", "t2", "t3", "t4", "t5", "t6">>
\* MUST-CREATE-TASK-PROPERLY parameters: the name of an existing task of f1 or a
\* new one, an existing feature or an id that names none
CreateTaskNameArgs == {"Add coupon field", "Refund coupon"}
CreateTaskFeatureArgs == {"f1", "f9"}
CreateTaskStatusArgs == {"backlog", "completed"}

\* session ids are generated tokens: the n-th session gets the n-th token
SessionTokens == <<"s1", "s2", "s3", "s4">>
\* a session id a caller may pass: a token, one that names no row, or none
SessionIdArgs == {SessionTokens[i] : i \in 1..MaxSessions} \cup {"s9", ""}
\* MUST-INITIALIZE-SESSION parameters
SessionTaskArgs == {Undefined, "t1", "t9"}
SessionFeatureArgs == {Undefined, "f1"}
\* tracking tool parameters
FilePathArgs == {"src/checkout.ts"}
ChangeTypeArgs == {"modified"}
ContentArgs == {"x", "y"}
\* MUST-END-SESSION-PROPERLY parameter
SummaryArgs == {"", "done", "redone"}

(* ------------------------- store: constraints -------------------------- *)

\* variant: a tasks table without the CHECK
tasks_no_self_blocking_absent(id, row) == TRUE

\* variant: a check that also refuses a blocker which is itself blocked by the row
tasks_no_blocking_cycle(id, row) ==
    /\ row.blocked_by_id # id
    /\ row.blocked_by_id \in DOMAIN tasks => tasks[row.blocked_by_id].blocked_by_id # id

\* CHECK (id != blocked_by_id); a NULL operand makes the CHECK pass
tasks_no_self_blocking(id, row) ==
    row.blocked_by_id = Null \/ id # row.blocked_by_id

tasks_blocking_requires_reason(row) ==
    \/ (row.blocking_reason = Null /\ row.blocked_by_id = Null)
    \/ (row.blocking_reason # Null /\ row.blocked_by_id # Null)

features_no_self_blocking(id, row) ==
    row.blocked_by_id = Null \/ id # row.blocked_by_id

features_blocking_requires_reason(row) ==
    \/ (row.blocking_reason = Null /\ row.blocked_by_id = Null)
    \/ (row.blocking_reason # Null /\ row.blocked_by_id # Null)

\* now() / new Date() inside a call that writes
CallTime == now + 1

\* minutes after which a checkpoint is due
CheckpointMinutes == 3

\* COALESCE(NEW.blocking_reason, 'Status updated')
Coalesce(x, default) == IF x = Null THEN default ELSE x

\* variant: a trigger that records every update, whether or not the status changed
update_status_tracking_every_update(old, new) ==
    [new EXCEPT
        !.status_updated_at = CallTime,
        !.status_history =
            <<[status |-> new.status,
               changed_at |-> CallTime,
               changed_by |-> "current_user",
               reason |-> Coalesce(new.blocking_reason, "Status updated")]>>
            \o old.status_history]

\* BEFORE UPDATE OF status trigger on features and tasks
update_status_tracking(old, new) ==
    IF old.status # new.status
    THEN [new EXCEPT
            !.status_updated_at = CallTime,
            !.status_history =
                <<[status |-> new.status,
                   changed_at |-> CallTime,
                   changed_by |-> "current_user",
                   reason |-> Coalesce(new.blocking_reason, "Status updated")]>>
                \o old.status_history]
    ELSE new

(* ------------------------------ new rows ------------------------------ *)

\* a row as createTask / createFeature leave it (column defaults of the schema)
NewTask(featureId, name, priority) ==
    [feature_id |-> featureId, name |-> name, priority |-> priority, created_at |-> 0,
     status |-> "backlog",
     blocking_reason |-> Null, blocked_by_id |-> Null,
     status_updated_at |-> 0, status_history |-> <<>>, updated_at |-> 0]

NewFeature ==
    [status |-> "planned",
     blocking_reason |-> Null, blocked_by_id |-> Null,
     status_updated_at |-> 0, status_history |-> <<>>, updated_at |-> 0]

NoResponse == [op |-> "none"]

\* the callers that may have a tool call in flight at the same time
Clients == {"c1", "c2"}

\* a caller with no call in flight
Idle == [op |-> "idle"]

(* ------------------------------- clock --------------------------------- *)

Tick ==
    /\ now < MaxTime
    /\ now' = now + 1
    /\ response' = NoResponse
    /\ UNCHANGED <<tasks, features, sessions, file_changes, checkpoints, snapshots,
                   decisions, scope_validations, calls>>

(* ------------------- updateTaskStatus (tool handler) ------------------- *)

\* REFERENCES tasks(id) on tasks.blocked_by_id
tasks_blocked_by_id_fkey(row) ==
    row.blocked_by_id = Null \/ row.blocked_by_id \in DOMAIN tasks

\* supabase.from("tasks").update(updateData).eq("id", id): the row the store
\* would write (trigger applied) and whether the store accepts it
TasksUpdateRow(id, updateData) ==
    update_status_tracking(tasks[id],
        [tasks[id] EXCEPT !.status = updateData.status,
                          !.updated_at = updateData.updated_at,
                          !.blocking_reason = updateData.blocking_reason,
                          !.blocked_by_id = updateData.blocked_by_id])

\* variant: the update carries no .eq("id", id) filter and reaches every task
\* of the same feature
TasksUpdateWholeFeature(id, row) ==
    [t \in DOMAIN tasks |->
        IF tasks[t].feature_id = tasks[id].feature_id THEN row ELSE tasks[t]]

\* the tasks table after .update(updateData).eq("id", id): one row replaced
TasksUpdate(id, row) == [tasks EXCEPT ![id] = row]

TasksUpdateError(id, row) ==
    IF ~tasks_no_self_blocking(id, row) THEN "tasks_no_self_blocking"
    ELSE IF ~tasks_blocking_requires_reason(row) THEN "tasks_blocking_requires_reason"
    ELSE IF ~tasks_blocked_by_id_fkey(row) THEN "tasks_blocked_by_id_fkey"
    ELSE Null

\* variant: only the reason is required
TaskMissingBlockingInfoReasonOnly(params) ==
    params.status = "blocked" /\ Falsy(params.blockingReason)

\* "Validate blocking status requirements": `!params.blockingReason || !params.blockedById`
TaskMissingBlockingInfo(params) ==
    params.status = "blocked" /\ (Falsy(params.blockingReason) \/ Falsy(params.blockedById))

\* variant: the blocker is looked up among the features
TaskBlockingTaskMissingAnyKind(params) ==
    params.status = "blocked" /\ params.blockedById \notin DOMAIN features

\* "Check if blocking task exists"
TaskBlockingTaskMissing(params) ==
    params.status = "blocked" /\ params.blockedById \notin DOMAIN tasks

\* "If status is already set to the requested value and blocking info hasn't changed"
\* (strict equality: a NULL column never equals an omitted parameter)
TaskAlreadyCurrent(task, params) ==
    /\ task.status = params.status
    /\ task.blocked_by_id = params.blockedById
    /\ task.blocking_reason = params.blockingReason

\* variant: the blocking pair is written as supplied, whatever the status
TaskUpdateDataAsSupplied(params) ==
    [status |-> params.status, updated_at |-> CallTime,
     blocking_reason |-> IF Falsy(params.blockingReason) THEN Null ELSE params.blockingReason,
     blocked_by_id |-> IF Falsy(params.blockedById) THEN Null ELSE params.blockedById]

\* updateData: "Clear blocking info when not blocked"
TaskUpdateData(params) ==
    IF params.status = "blocked"
    THEN [status |-> params.status, updated_at |-> CallTime,
          blocking_reason |-> params.blockingReason, blocked_by_id |-> params.blockedById]
    ELSE [status |-> params.status, updated_at |-> CallTime,
          blocking_reason |-> Null, blocked_by_id |-> Null]

\* feature progress read after the write: every task of the feature is completed
\* and the request was "completed"; the handler then uses nextActions before its
\* declaration, which throws into the catch block
TaskLastCompletedThrows(written, featureId, params) ==
    LET featureTasks == {t \in DOMAIN written : written[t].feature_id = featureId}
        completedTasks == {t \in featureTasks : written[t].status = "completed"}
    IN  params.status = "completed" /\ completedTasks = featureTasks

\* featureProgress: the counts read from the tasks of the feature after the write
TaskFeatureProgress(written, featureId) ==
    LET featureTasks == {t \in DOMAIN written : written[t].feature_id = featureId}
        completedTasks == {t \in featureTasks : written[t].status = "completed"}
    IN  [total_tasks |-> Cardinality(featureTasks),
         completed_tasks |-> Cardinality(completedTasks)]

\* `Error updating task status: ${error.message}`
TaskUpdateErrorDetails(error) ==
    IF error = "tasks_no_self_blocking"
    THEN "Error updating task status: violates check constraint tasks_no_self_blocking"
    ELSE IF error = "tasks_blocking_requires_reason"
    THEN "Error updating task status: violates check constraint tasks_blocking_requires_reason"
    ELSE "Error updating task status: violates foreign key constraint tasks_blocked_by_id_fkey"

TaskFail(details) ==
    [op |-> "updateTaskStatus", success |-> FALSE,
     title |-> "Task Status Update Failed", details |-> details]

UpdateTaskStatus(taskId, status, blockingReason, blockedById) ==
    LET params == [taskId |-> taskId, status |-> status,
                   blockingReason |-> blockingReason, blockedById |-> blockedById]
    IN
    /\ IF taskId \notin DOMAIN tasks
       THEN /\ response' = TaskFail("Task does not exist")
            /\ UNCHANGED <<tasks, now>>
       ELSE IF TaskMissingBlockingInfo(params)
       THEN /\ response' = TaskFail(
                   "Blocking reason and blocked by ID are required when setting status to 'blocked'")
            /\ UNCHANGED <<tasks, now>>
       ELSE IF TaskBlockingTaskMissing(params)
       THEN /\ response' = TaskFail("Blocking task does not exist")
            /\ UNCHANGED <<tasks, now>>
       ELSE IF TaskAlreadyCurrent(tasks[taskId], params)
       THEN /\ response' = [op |-> "updateTaskStatus", success |-> TRUE,
                            title |-> "Task Status Already Current",
                            details |-> "Task status is already set",
                            current_status |-> tasks[taskId].status]
            /\ UNCHANGED <<tasks, now>>
       ELSE LET row == TasksUpdateRow(taskId, TaskUpdateData(params))
                error == TasksUpdateError(taskId, row)
                written == TasksUpdate(taskId, row)
            IN  IF error # Null
                THEN /\ response' = TaskFail(TaskUpdateErrorDetails(error))
                     /\ UNCHANGED <<tasks, now>>
                ELSE    /\ now < MaxTime
                        /\ tasks' = written
                        /\ now' = CallTime
                        /\ IF TaskLastCompletedThrows(written, tasks[taskId].feature_id, params)
                           THEN response' = TaskFail("Failed to update task status")
                           ELSE response' =
                                  [op |-> "updateTaskStatus",
                                   success |-> TRUE, title |-> "Task Status Updated",
                                   details |-> "Successfully updated task status",
                                   previous_status |-> tasks[taskId].status,
                                   new_status |-> params.status,
                                   feature_progress |->
                                       TaskFeatureProgress(written,
                                                           tasks[taskId].feature_id)]
    /\ UNCHANGED <<features, sessions, file_changes, checkpoints, snapshots,
                   decisions, scope_validations>>

(* ------------------ updateFeatureStatus (tool handler) ----------------- *)

\* REFERENCES features(id) on features.blocked_by_id
features_blocked_by_id_fkey(row) ==
    row.blocked_by_id = Null \/ row.blocked_by_id \in DOMAIN features

FeaturesUpdateRow(id, updateData) ==
    update_status_tracking(features[id],
        [features[id] EXCEPT !.status = updateData.status,
                             !.updated_at = updateData.updated_at,
                             !.blocking_reason = updateData.blocking_reason,
                             !.blocked_by_id = updateData.blocked_by_id])

FeaturesUpdateError(id, row) ==
    IF ~features_no_self_blocking(id, row) THEN "features_no_self_blocking"
    ELSE IF ~features_blocking_requires_reason(row) THEN "features_blocking_requires_reason"
    ELSE IF ~features_blocked_by_id_fkey(row) THEN "features_blocked_by_id_fkey"
    ELSE Null

FeatureMissingBlockingInfo(params) ==
    params.status = "blocked" /\ (Falsy(params.blockingReason) \/ Falsy(params.blockedById))

FeatureBlockingFeatureMissing(params) ==
    params.status = "blocked" /\ params.blockedById \notin DOMAIN features

FeatureAlreadyCurrent(feature, params) ==
    /\ feature.status = params.status
    /\ feature.blocked_by_id = params.blockedById
    /\ feature.blocking_reason = params.blockingReason

FeatureUpdateData(params) ==
    IF params.status = "blocked"
    THEN [status |-> params.status, updated_at |-> CallTime,
          blocking_reason |-> params.blockingReason, blocked_by_id |-> params.blockedById]
    ELSE [status |-> params.status, updated_at |-> CallTime,
          blocking_reason |-> Null, blocked_by_id |-> Null]

\* `Error updating feature status: ${error.message}`
FeatureUpdateErrorDetails(error) ==
    IF error = "features_no_self_blocking"
    THEN "Error updating feature status: violates check constraint features_no_self_blocking"
    ELSE IF error = "features_blocking_requires_reason"
    THEN "Error updating feature status: violates check constraint features_blocking_requires_reason"
    ELSE "Error updating feature status: violates foreign key constraint features_blocked_by_id_fkey"

FeatureFail(details) ==
    [op |-> "updateFeatureStatus", success |-> FALSE,
     title |-> "Feature Status Update Failed", details |-> details]

UpdateFeatureStatus(featureId, status, blockingReason, blockedById) ==
    LET params == [featureId |-> featureId, status |-> status,
                   blockingReason |-> blockingReason, blockedById |-> blockedById]
    IN
    /\ IF featureId \notin DOMAIN features
       THEN /\ response' = FeatureFail("Feature does not exist")
            /\ UNCHANGED <<features, now>>
       ELSE IF FeatureMissingBlockingInfo(params)
       THEN /\ response' = FeatureFail(
                   "Blocking reason and blocked by ID are required when setting status to 'blocked'")
            /\ UNCHANGED <<features, now>>
       ELSE IF FeatureBlockingFeatureMissing(params)
       THEN /\ response' = FeatureFail("Blocking feature does not exist")
            /\ UNCHANGED <<features, now>>
       ELSE IF FeatureAlreadyCurrent(features[featureId], params)
       THEN /\ response' = [op |-> "updateFeatureStatus", success |-> TRUE,
                            title |-> "Feature Status Already Current",
                            details |-> "Feature status is already set",
                            current_status |-> features[featureId].status]
            /\ UNCHANGED <<features, now>>
       ELSE LET row == FeaturesUpdateRow(featureId, FeatureUpdateData(params))
                error == FeaturesUpdateError(featureId, row)
            IN  IF error # Null
                THEN /\ response' = FeatureFail(FeatureUpdateErrorDetails(error))
                     /\ UNCHANGED <<features, now>>
                ELSE /\ now < MaxTime
                     /\ features' = [features EXCEPT ![featureId] = row]
                     /\ now' = CallTime
                     /\ response' =
                          [op |-> "updateFeatureStatus",
                           success |-> TRUE, title |-> "Feature Status Updated",
                           details |-> "Successfully updated feature status",
                           previous_status |-> features[featureId].status,
                           new_status |-> params.status]
    /\ UNCHANGED <<tasks, sessions, file_changes, checkpoints, snapshots,
                   decisions, scope_validations>>

(* ------------------------ utils/validation.ts -------------------------- *)

\* validateSession: "Check if session exists and is active"
\* variant: any stored session is accepted, whatever its status
validateSessionAnyStatus(sessionId) ==
    IF Falsy(sessionId)
    THEN [valid |-> FALSE, error |-> "No session ID provided"]
    ELSE IF sessionId \notin DOMAIN sessions
    THEN [valid |-> FALSE, error |-> "Session not found"]
    ELSE [valid |-> TRUE, error |-> Null]

validateSession(sessionId) ==
    IF Falsy(sessionId)
    THEN [valid |-> FALSE, error |-> "No session ID provided"]
    ELSE IF sessionId \notin DOMAIN sessions
    THEN [valid |-> FALSE, error |-> "Session not found"]
    ELSE IF sessions[sessionId].status # "active"
    THEN [valid |-> FALSE, error |-> "Session is not active"]
    ELSE [valid |-> TRUE, error |-> Null]

(* ------------------- MUST-INITIALIZE-SESSION (handler) ----------------- *)

\* `x || null`
OrNull(x) == IF Falsy(x) THEN Null ELSE x

\* REFERENCES tasks(id) / features(id) on the sessions links
sessions_fkeys(row) ==
    /\ (row.task_id = Null \/ row.task_id \in DOMAIN tasks)
    /\ (row.feature_id = Null \/ row.feature_id \in DOMAIN features)

SessionRow(taskId, featureId, startTime) ==
    [task_id |-> OrNull(taskId), feature_id |-> OrNull(featureId),
     status |-> "active", start_time |-> startTime, end_time |-> NullTime,
     summary |-> Null, last_checkpoint_at |-> NullTime,
     last_file_change_at |-> NullTime, last_decision_at |-> NullTime,
     compliance_score |-> 100]

Initialize(taskId, featureId) ==
    LET sessionId == SessionTokens[Cardinality(DOMAIN sessions) + 1]
        row == SessionRow(taskId, featureId, CallTime)
    IN
    /\ Cardinality(DOMAIN sessions) < MaxSessions
    /\ UNCHANGED <<tasks, features, file_changes, checkpoints, snapshots,
                   decisions, scope_validations>>
    /\ IF ~sessions_fkeys(row)
       THEN /\ response' = [op |-> "initialize", success |-> FALSE,
                            title |-> "INITIALIZATION FAILED",
                            details |-> "The assistant could not be initialized"]
            /\ UNCHANGED <<sessions, now>>
       ELSE /\ now < MaxTime
            /\ sessions' = [id \in DOMAIN sessions \cup {sessionId} |->
                              IF id = sessionId THEN row ELSE sessions[id]]
            /\ now' = CallTime
            /\ response' = [op |-> "initialize", success |-> TRUE,
                            title |-> "SESSION INITIALIZED",
                            details |-> "SESSION INITIALIZED",
                            sessionId |-> sessionId]

(* --------------- endSession (session/end-session.ts, function) --------- *)

\* variant: an update that the status trigger does not see
TasksSetStatusRowUntracked(id, status) == [tasks[id] EXCEPT !.status = status]

\* supabase.from('tasks').update({ status }).eq('id', id), through the trigger
TasksSetStatusRow(id, status) ==
    update_status_tracking(tasks[id], [tasks[id] EXCEPT !.status = status])

EndSessionFail(title, details) ==
    [op |-> "endSession", success |-> FALSE, title |-> title, details |-> details]

endSession(sessionId, summary) ==
    /\ UNCHANGED <<features, file_changes, checkpoints, snapshots,
                   decisions, scope_validations>>
    /\ IF Falsy(sessionId)
       THEN /\ response' = EndSessionFail("Missing session ID", "Please provide a session ID")
            /\ UNCHANGED <<sessions, tasks, now>>
       ELSE IF Falsy(summary)
       THEN /\ response' = EndSessionFail("Missing summary",
                              "Please provide a summary of what was accomplished")
            /\ UNCHANGED <<sessions, tasks, now>>
       ELSE IF sessionId \notin DOMAIN sessions
       THEN /\ response' = EndSessionFail("Session not found", "Please check the session ID")
            /\ UNCHANGED <<sessions, tasks, now>>
       ELSE LET sessionData == sessions[sessionId]
                hasTask == sessionData.task_id # Null /\ sessionData.task_id \in DOMAIN tasks
                inProgress == hasTask /\ tasks[sessionData.task_id].status = "in_progress"
                row == TasksSetStatusRow(sessionData.task_id, "in_review")
            IN  /\ now < MaxTime
                /\ now' = CallTime
                /\ sessions' = [sessions EXCEPT ![sessionId].end_time = CallTime,
                                                ![sessionId].summary = summary]
                /\ IF ~inProgress
                   THEN /\ UNCHANGED tasks
                        /\ response' = [op |-> "endSession", success |-> TRUE,
                                        title |-> "Session ended successfully",
                                        details |-> "You can now start a new session"]
                   ELSE IF TasksUpdateError(sessionData.task_id, row) # Null
                   THEN /\ UNCHANGED tasks
                        /\ response' = EndSessionFail("Failed to update task status",
                                                      "Please try again")
                   ELSE /\ tasks' = [tasks EXCEPT ![sessionData.task_id] = row]
                        /\ response' = [op |-> "endSession", success |-> TRUE,
                                        title |-> "Session ended successfully",
                                        details |-> "You can now start a new session"]

(* --------------- MUST-END-SESSION-PROPERLY (handler) ------------------- *)

\* .order("priority", desc).order("created_at", asc)
TaskPrecedes(a, b) ==
    \/ tasks[a].priority > tasks[b].priority
    \/ (tasks[a].priority = tasks[b].priority /\ tasks[a].created_at < tasks[b].created_at)

\* variant: the query has no .neq("status", "completed") filter
NextTasksAnyStatus(featureId) ==
    LET all == {t \in DOMAIN tasks : tasks[t].feature_id = featureId}
    IN  {t \in all : \A u \in all \ {t} : ~TaskPrecedes(u, t)}

\* tasks of the feature that are not completed, the first of them by that order
NextTasks(featureId) ==
    LET open == {t \in DOMAIN tasks :
                    tasks[t].feature_id = featureId /\ tasks[t].status # "completed"}
    IN  {t \in open : \A u \in open \ {t} : ~TaskPrecedes(u, t)}

\* the prompt the handler appends and the next task it reports
EndSessionHints(taskId, featureId) ==
    IF taskId = Null \/ featureId = Null
    THEN {[prompt |-> "none", next_task |-> Null]}
    ELSE IF ~(taskId \in DOMAIN tasks /\ tasks[taskId].status = "completed")
    THEN {[prompt |-> "none", next_task |-> Null]}
    ELSE IF NextTasks(featureId) # {}
    THEN {[prompt |-> "NEXT TASK", next_task |-> t] : t \in NextTasks(featureId)}
    ELSE IF featureId \notin DOMAIN features
    THEN {[prompt |-> "none", next_task |-> Null]}
    ELSE IF features[featureId].status # "completed"
    THEN {[prompt |-> "FEATURE COMPLETION", next_task |-> Null]}
    ELSE {[prompt |-> "FEATURE ALREADY COMPLETED", next_task |-> Null]}

EndSessionHandler(sessionId, summary) ==
    LET result == validateSession(sessionId)
    IN
    /\ UNCHANGED <<tasks, features, file_changes, checkpoints, snapshots,
                   decisions, scope_validations>>
    /\ IF ~result.valid
       THEN /\ response' = [op |-> "endSessionHandler", success |-> FALSE,
                            title |-> "Session End Failed", details |-> result.error]
            /\ UNCHANGED <<sessions, now>>
       ELSE /\ now < MaxTime
            /\ now' = CallTime
            /\ sessions' = [sessions EXCEPT ![sessionId].status = "completed",
                                            ![sessionId].end_time = CallTime,
                                            ![sessionId].summary = summary]
            /\ \E hint \in EndSessionHints(sessions[sessionId].task_id,
                                           sessions[sessionId].feature_id) :
                 response' = [op |-> "endSessionHandler", success |-> TRUE,
                              title |-> "Session Ended",
                              details |-> "Session ended successfully",
                              prompt |-> hint.prompt, next_task |-> hint.next_task]

(* ---------------- MUST-RECORD-EVERY-FILE-CHANGE (handler) -------------- *)

\* variant: a checkpoint is due only after more than CheckpointMinutes
CheckpointDueStrict(data, t) ==
    LET lastCheckpoint == IF data.last_checkpoint_at # NullTime
                          THEN data.last_checkpoint_at ELSE data.start_time
    IN  (t - lastCheckpoint) > CheckpointMinutes

\* the test of checkpointNeeded on the session row it has read:
\* `lastCheckpoint = data.last_checkpoint_at ? ... : data.start_time`,
\* `minutesSinceLastCheckpoint >= 3`
CheckpointDue(data, t) ==
    LET lastCheckpoint == IF data.last_checkpoint_at # NullTime
                          THEN data.last_checkpoint_at ELSE data.start_time
    IN  (t - lastCheckpoint) >= CheckpointMinutes

\* checkpointNeeded, evaluated at instant t (Date.now())
checkpointNeeded(sessionId, t) ==
    IF sessionId \notin DOMAIN sessions THEN TRUE
    ELSE CheckpointDue(sessions[sessionId], t)

\* what the session read of verifyScopeCompliance returns: the row, or no data
\* when the request to the store fails (the helper does not read `error`)
ScopeReads == {"row", "none"}

\* verifyScopeCompliance: non-compliant only when the session read returns no
\* data; every row that is read is reported compliant
verifyScopeCompliance(sessionId, filePath, operation, scopeRead) ==
    IF sessionId \notin DOMAIN sessions \/ scopeRead = "none"
    THEN [compliant |-> FALSE, reason |-> "Session not found"]
    ELSE [compliant |-> TRUE, reason |-> Null]

\* variant: the violation is logged as a warning
ScopeViolationRowAsWarning(sessionId, t) ==
    [session_id |-> sessionId, validation_type |-> "scope_check",
     result |-> "warning", details |-> "File operation outside scope", timestamp |-> t]

\* "Record the scope violation": the scope_validations row
ScopeViolationRow(sessionId, t) ==
    [session_id |-> sessionId, validation_type |-> "scope_check",
     result |-> "violation", details |-> "File operation outside scope", timestamp |-> t]

\* "Update compliance score": the update carries the unsent rpc request
\* object as the value of the integer column compliance_score, the store
\* rejects it, and the handler does not read the error
SessionsAfterScoreUpdate(sessionId) == sessions

\* `session?.compliance_score || 100`
ReportedScore(score) == IF score = 0 THEN 100 ELSE score

RecordFileChange(sessionId, filePath, changeType, scopeRead) ==
    LET sessionValidation == validateSession(sessionId)
        scopeCheck == verifyScopeCompliance(sessionId, filePath, changeType, scopeRead)
    IN
    /\ UNCHANGED <<tasks, features, checkpoints, snapshots, decisions>>
    /\ IF ~sessionValidation.valid
       THEN /\ response' = [op |-> "recordFileChange", success |-> FALSE,
                            title |-> "INVALID SESSION",
                            details |-> sessionValidation.error]
            /\ UNCHANGED <<sessions, file_changes, scope_validations, now>>
       ELSE IF ~scopeCheck.compliant
       THEN /\ now < MaxTime
            /\ now' = CallTime
            /\ scope_validations' = scope_validations \cup
                  {ScopeViolationRow(sessionId, CallTime)}
            /\ sessions' = SessionsAfterScoreUpdate(sessionId)
            /\ UNCHANGED file_changes
            /\ response' = [op |-> "recordFileChange", success |-> FALSE,
                            title |-> "SCOPE VIOLATION DETECTED",
                            details |-> "outside your assigned task scope"]
       ELSE /\ now < MaxTime
            /\ now' = CallTime
            /\ file_changes' = file_changes \cup
                  {[session_id |-> sessionId, file_path |-> filePath,
                    change_type |-> changeType, timestamp |-> CallTime]}
            /\ sessions' = [sessions EXCEPT ![sessionId].last_file_change_at = CallTime]
            /\ UNCHANGED scope_validations
            /\ response' = [op |-> "recordFileChange", success |-> TRUE,
                            title |-> "FILE RECORDED",
                            details |-> "has been successfully logged",
                            needsCheckpoint |-> checkpointNeeded(sessionId, CallTime),
                            complianceScore |->
                                ReportedScore(sessions[sessionId].compliance_score)]

(* ---------------- MANDATORY-PROGRESS-CHECKPOINT (handler) -------------- *)

\* session_id TEXT REFERENCES sessions(id): a nullable foreign key
checkpoints_session_id_fkey(row) ==
    row.session_id = Null \/ row.session_id \in DOMAIN sessions

\* `if (params.sessionId)`: the session is validated only when an id is supplied
CheckpointSessionSupplied(sessionId) == ~Falsy(sessionId)

\* the inserted row: an omitted sessionId is stored as NULL
CheckpointRow(sessionId, t) ==
    [session_id |-> IF sessionId = Undefined THEN Null ELSE sessionId, timestamp |-> t]

CreateCheckpoint(sessionId) ==
    LET result == validateSession(sessionId)
        row == CheckpointRow(sessionId, CallTime)
    IN
    /\ UNCHANGED <<tasks, features, sessions, file_changes, snapshots, decisions,
                   scope_validations>>
    /\ IF CheckpointSessionSupplied(sessionId) /\ ~result.valid
       THEN /\ response' = [op |-> "createCheckpoint", success |-> FALSE,
                            title |-> "Checkpoint Creation Failed",
                            details |-> result.error]
            /\ UNCHANGED <<checkpoints, now>>
       ELSE IF ~checkpoints_session_id_fkey(row)
       THEN /\ response' = [op |-> "createCheckpoint", success |-> FALSE,
                            title |-> "Checkpoint Creation Failed",
                            details |-> "Error creating checkpoint: violates foreign key constraint checkpoints_session_id_fkey"]
            /\ UNCHANGED <<checkpoints, now>>
       ELSE /\ now < MaxTime
            /\ now' = CallTime
            /\ checkpoints' = checkpoints \cup {row}
            /\ response' = [op |-> "createCheckpoint", success |-> TRUE,
                            title |-> "Checkpoint Created",
                            details |-> "Progress checkpoint created successfully"]

(* -------------------- MUST-LOG-ALL-DECISIONS (handler) ----------------- *)

LogDecision(sessionId) ==
    LET result == validateSession(sessionId)
    IN
    /\ UNCHANGED <<tasks, features, sessions, file_changes, checkpoints, snapshots,
                   scope_validations>>
    /\ IF ~result.valid
       THEN /\ response' = [op |-> "logDecision", success |-> FALSE,
                            title |-> "Decision Logging Failed",
                            details |-> result.error]
            /\ UNCHANGED <<decisions, now>>
       ELSE /\ now < MaxTime
            /\ now' = CallTime
            /\ decisions' = decisions \cup
                  {[session_id |-> sessionId, timestamp |-> CallTime]}
            /\ response' = [op |-> "logDecision", success |-> TRUE,
                            title |-> "Decision Logged",
                            details |-> "Decision logged successfully"]

(* ------------------- MUST-SNAPSHOT-KEY-STATES (handler) ---------------- *)

\* variant: a fingerprint that does not depend on the content
Base64Constant(content) == "eA=="

\* Buffer.from(content).toString('base64')
Base64(content) ==
    IF content = "x" THEN "eA==" ELSE IF content = "y" THEN "eQ==" ELSE "Pw=="

\* .eq(session_id).eq(file_path).eq(content_hash).maybeSingle()
ExistingSnapshots(sessionId, filePath, contentHash) ==
    {r \in snapshots : /\ r.session_id = sessionId
                       /\ r.file_path = filePath
                       /\ r.content_hash = contentHash}

CreateSnapshot(sessionId, filePath, content) ==
    LET result == validateSession(sessionId)
        contentHash == Base64(content)
        existing == ExistingSnapshots(sessionId, filePath, contentHash)
    IN
    /\ UNCHANGED <<tasks, features, sessions, file_changes, checkpoints, decisions,
                   scope_validations>>
    /\ IF ~result.valid
       THEN /\ response' = [op |-> "createSnapshot", success |-> FALSE,
                            title |-> "Snapshot Creation Failed",
                            details |-> result.error]
            /\ UNCHANGED <<snapshots, now>>
       ELSE IF Cardinality(existing) = 1
       THEN /\ response' = [op |-> "createSnapshot", success |-> FALSE,
                            title |-> "Snapshot Already Exists",
                            details |-> "A snapshot with identical content already exists"]
            /\ UNCHANGED <<snapshots, now>>
       ELSE \* no row, or several rows (maybeSingle's PGRST116, which the handler lets pass)
            /\ now < MaxTime
            /\ now' = CallTime
            /\ snapshots' = snapshots \cup
                  {[session_id |-> sessionId, file_path |-> filePath,
                    content |-> content, content_hash |-> contentHash,
                    timestamp |-> CallTime]}
            /\ response' = [op |-> "createSnapshot", success |-> TRUE,
                            title |-> "Snapshot Created",
                            details |-> "Snapshot created successfully"]

(* ---------------- createTask (tool handler), in flight ---------------- *)

\* .from("tasks").select("id").eq("feature_id", ...).eq("name", ...)
ExistingTasks(featureId, name) ==
    {t \in DOMAIN tasks : tasks[t].feature_id = featureId /\ tasks[t].name = name}

CreateTaskFail(title, details) ==
    [op |-> "createTask", success |-> FALSE, title |-> title, details |-> details]

\* the reads of the handler: the feature is selected, then the tasks of the
\* feature with the requested name (maybeSingle: several rows are an error);
\* the call returns, or goes on to its insert
CreateTaskRead(c, featureId, name, status, priority) ==
    LET existing == ExistingTasks(featureId, name) IN
    /\ calls[c] = Idle
    /\ UNCHANGED <<tasks, features, sessions, file_changes, checkpoints, snapshots,
                   decisions, scope_validations, now>>
    /\ IF featureId \notin DOMAIN features
       THEN /\ response' = CreateTaskFail("Task Creation Failed", "Feature does not exist")
            /\ UNCHANGED calls
       ELSE IF Cardinality(existing) > 1
       THEN /\ response' = CreateTaskFail("Task Creation Failed",
                                          "Error checking task existence")
            /\ UNCHANGED calls
       ELSE IF existing # {}
       THEN /\ response' = CreateTaskFail("Task Already Exists",
                                          "Task with this name already exists for this feature")
            /\ UNCHANGED calls
       ELSE /\ response' = NoResponse
            /\ calls' = [calls EXCEPT ![c] =
                            [op |-> "createTask", featureId |-> featureId, name |-> name,
                             status |-> status, priority |-> priority]]

\* the insert of a call that has found no task of that name: no constraint of
\* the tasks table involves the name
CreateTaskInsert(c) ==
    LET id == TaskTokens[Cardinality(DOMAIN tasks) + 1]
        row == [NewTask(calls[c].featureId, calls[c].name, calls[c].priority)
                   EXCEPT !.status = calls[c].status,
                          !.created_at = CallTime,
                          !.updated_at = CallTime,
                          !.status_updated_at = CallTime]
    IN
    /\ calls[c].op = "createTask"
    /\ now < MaxTime
    /\ now' = CallTime
    /\ tasks' = [t \in DOMAIN tasks \cup {id} |-> IF t = id THEN row ELSE tasks[t]]
    /\ response' = [op |-> "createTask", success |-> TRUE, title |-> "Task Created",
                    details |-> "Successfully created task", task_id |-> id]
    /\ calls' = [calls EXCEPT ![c] = Idle]
    /\ UNCHANGED <<features, sessions, file_changes, checkpoints, snapshots, decisions,
                   scope_validations>>

(* ----------------- updateTaskStatus, calls in flight ------------------- *)

\* the reads of the handler: the task is selected and the request validated
\* against the row read; the call returns, or goes on to its update holding
\* the row it read
TaskStatusRead(c, taskId, status, blockingReason, blockedById) ==
    LET params == [taskId |-> taskId, status |-> status,
                   blockingReason |-> blockingReason, blockedById |-> blockedById]
    IN
    /\ calls[c] = Idle
    /\ UNCHANGED <<tasks, features, sessions, file_changes, checkpoints, snapshots,
                   decisions, scope_validations, now>>
    /\ IF taskId \notin DOMAIN tasks
       THEN /\ response' = TaskFail("Task does not exist")
            /\ UNCHANGED calls
       ELSE IF TaskMissingBlockingInfo(params)
       THEN /\ response' = TaskFail(
                   "Blocking reason and blocked by ID are required when setting status to 'blocked'")
            /\ UNCHANGED calls
       ELSE IF TaskBlockingTaskMissing(params)
       THEN /\ response' = TaskFail("Blocking task does not exist")
            /\ UNCHANGED calls
       ELSE IF TaskAlreadyCurrent(tasks[taskId], params)
       THEN /\ response' = [op |-> "updateTaskStatus", success |-> TRUE,
                            title |-> "Task Status Already Current",
                            details |-> "Task status is already set",
                            current_status |-> tasks[taskId].status]
            /\ UNCHANGED calls
       ELSE /\ response' = NoResponse
            /\ calls' = [calls EXCEPT ![c] =
                            [op |-> "updateTaskStatus", params |-> params,
                             task |-> tasks[taskId]]]

\* the update of a call in flight: the store applies it to the row as it is
\* now, the response is built from the row the call read
TaskStatusWrite(c) ==
    /\ calls[c].op = "updateTaskStatus"
    /\ LET params == calls[c].params
           task == calls[c].task
           row == TasksUpdateRow(params.taskId, TaskUpdateData(params))
           error == TasksUpdateError(params.taskId, row)
           written == TasksUpdate(params.taskId, row)
       IN  IF error # Null
           THEN /\ response' = TaskFail(TaskUpdateErrorDetails(error))
                /\ UNCHANGED <<tasks, now>>
           ELSE /\ now < MaxTime
                /\ tasks' = written
                /\ now' = CallTime
                /\ IF TaskLastCompletedThrows(written, task.feature_id, params)
                   THEN response' = TaskFail("Failed to update task status")
                   ELSE response' =
                          [op |-> "updateTaskStatus",
                           success |-> TRUE, title |-> "Task Status Updated",
                           details |-> "Successfully updated task status",
                           previous_status |-> task.status,
                           new_status |-> params.status,
                           feature_progress |->
                               TaskFeatureProgress(written, task.feature_id)]
    /\ calls' = [calls EXCEPT ![c] = Idle]
    /\ UNCHANGED <<features, sessions, file_changes, checkpoints, snapshots,
                   decisions, scope_validations>>

(* ------------- MUST-SNAPSHOT-KEY-STATES, calls in flight --------------- *)

\* the reads of the handler: the session is validated and the snapshots of the
\* same session, file and content hash are selected; the call returns, or goes
\* on to its insert
SnapshotRead(c, sessionId, filePath, content) ==
    LET result == validateSession(sessionId)
        contentHash == Base64(content)
        existing == ExistingSnapshots(sessionId, filePath, contentHash)
    IN
    /\ calls[c] = Idle
    /\ UNCHANGED <<tasks, features, sessions, file_changes, checkpoints, snapshots,
                   decisions, scope_validations, now>>
    /\ IF ~result.valid
       THEN /\ response' = [op |-> "createSnapshot", success |-> FALSE,
                            title |-> "Snapshot Creation Failed",
                            details |-> result.error]
            /\ UNCHANGED calls
       ELSE IF Cardinality(existing) = 1
       THEN /\ response' = [op |-> "createSnapshot", success |-> FALSE,
                            title |-> "Snapshot Already Exists",
                            details |-> "A snapshot with identical content already exists"]
            /\ UNCHANGED calls
       ELSE /\ response' = NoResponse
            /\ calls' = [calls EXCEPT ![c] =
                            [op |-> "createSnapshot", sessionId |-> sessionId,
                             filePath |-> filePath, content |-> content,
                             contentHash |-> contentHash]]

\* the insert of a call that has found no snapshot
SnapshotInsert(c) ==
    /\ calls[c].op = "createSnapshot"
    /\ now < MaxTime
    /\ now' = CallTime
    /\ snapshots' = snapshots \cup
          {[session_id |-> calls[c].sessionId, file_path |-> calls[c].filePath,
            content |-> calls[c].content, content_hash |-> calls[c].contentHash,
            timestamp |-> CallTime]}
    /\ response' = [op |-> "createSnapshot", success |-> TRUE,
                    title |-> "Snapshot Created",
                    details |-> "Snapshot created successfully"]
    /\ calls' = [calls EXCEPT ![c] = Idle]
    /\ UNCHANGED <<tasks, features, sessions, file_changes, checkpoints, decisions,
                   scope_validations>>

\* The store a minute after the migrations and the first tool calls: feature f1
\* with its tasks t1 and t2, feature f2, and session s1 initialized on task t1 of
\* f1, all created at minute 0.
Init ==
    /\ tasks = [t \in TaskIds |-> NewTask("f1", TaskNames[t], IF t = "t1" THEN 1 ELSE 2)]
    /\ features = [f \in FeatureIds |-> NewFeature]
    /\ sessions = [id \in {SessionTokens[1]} |-> SessionRow("t1", "f1", 0)]
    /\ file_changes = {}
    /\ checkpoints = {}
    /\ snapshots = {}
    /\ decisions = {}
    /\ scope_validations = {}
    /\ now = 1
    /\ response = NoResponse
    /\ calls = [c \in Clients |-> Idle]

(* --------------------------- specifications ---------------------------- *)

\* a call that names no task is tried with one combination of the other
\* parameters: the handler returns before it reads them
CallUpdateTaskStatus ==
    /\ UNCHANGED calls
    /\ \E taskId \in TaskIdArgs, status \in TaskStatusArgs,
          blockingReason \in BlockingReasonArgs, blockedById \in TaskBlockedByArgs :
          /\ taskId \notin TaskIds
             => (status = "completed" /\ blockingReason = Undefined /\ blockedById = Undefined)
          /\ UpdateTaskStatus(taskId, status, blockingReason, blockedById)

CallUpdateFeatureStatus ==
    /\ UNCHANGED calls
    /\ \E featureId \in FeatureIdArgs, status \in FeatureStatusArgs,
          blockingReason \in BlockingReasonArgs, blockedById \in FeatureBlockedByArgs :
          /\ featureId \notin FeatureIds
             => (status = "completed" /\ blockingReason = Undefined /\ blockedById = Undefined)
          /\ UpdateFeatureStatus(featureId, status, blockingReason, blockedById)

CallInitialize ==
    /\ UNCHANGED calls
    /\ \E taskId \in SessionTaskArgs, featureId \in SessionFeatureArgs :
          Initialize(taskId, featureId)

CallEndSession ==
    /\ UNCHANGED calls
    /\ \E sessionId \in SessionIdArgs, summary \in SummaryArgs : endSession(sessionId, summary)

CallEndSessionHandler ==
    /\ UNCHANGED calls
    /\ \E sessionId \in SessionIdArgs, summary \in SummaryArgs :
          EndSessionHandler(sessionId, summary)

CallRecordFileChange ==
    /\ UNCHANGED calls
    /\ \E sessionId \in SessionIdArgs, filePath \in FilePathArgs,
          changeType \in ChangeTypeArgs, scopeRead \in ScopeReads :
          RecordFileChange(sessionId, filePath, changeType, scopeRead)

CallCreateCheckpoint ==
    /\ UNCHANGED calls
    /\ \E sessionId \in SessionIdArgs \cup {Undefined} : CreateCheckpoint(sessionId)

CallLogDecision ==
    /\ UNCHANGED calls
    /\ \E sessionId \in SessionIdArgs : LogDecision(sessionId)

CallCreateSnapshot ==
    /\ UNCHANGED calls
    /\ \E sessionId \in SessionIdArgs, filePath \in FilePathArgs, content \in ContentArgs :
          CreateSnapshot(sessionId, filePath, content)

\* every tool of the registry
Next ==
    \/ Tick
    \/ CallUpdateTaskStatus
    \/ CallUpdateFeatureStatus
    \/ CallInitialize
    \/ CallEndSession
    \/ CallEndSessionHandler
    \/ CallRecordFileChange
    \/ CallCreateCheckpoint
    \/ CallLogDecision
    \/ CallCreateSnapshot

Spec == Init /\ [][Next]_vars

\* the two status tools
NextStatus ==
    \/ CallUpdateTaskStatus
    \/ CallUpdateFeatureStatus

SpecStatus == Init /\ [][NextStatus]_vars

\* every tool that writes a feature or a task: the status tools, and endSession,
\* which moves the session's task from in_progress to in_review
NextEntities ==
    \/ CallUpdateTaskStatus
    \/ CallUpdateFeatureStatus
    \/ CallEndSession

SpecEntities == Init /\ [][NextEntities]_vars

\* the session tools and the tracking tools
NextSession ==
    \/ Tick
    \/ CallInitialize
    \/ CallEndSession
    \/ CallEndSessionHandler
    \/ CallRecordFileChange
    \/ CallCreateCheckpoint
    \/ CallLogDecision
    \/ CallCreateSnapshot

SpecSession == Init /\ [][NextSession]_vars

\* values of sessions.compliance_score ("Score from 0-100"), the ends of the
\* range and values inside it
ScoreValues == {0, 1, 50, 99, 100}

\* the store with the first session at any stored score
InitScore ==
    /\ tasks = [t \in TaskIds |-> NewTask("f1", TaskNames[t], IF t = "t1" THEN 1 ELSE 2)]
    /\ features = [f \in FeatureIds |-> NewFeature]
    /\ \E score \in ScoreValues :
          sessions = [id \in {SessionTokens[1]} |->
                         [SessionRow("t1", "f1", 0) EXCEPT !.compliance_score = score]]
    /\ file_changes = {}
    /\ checkpoints = {}
    /\ snapshots = {}
    /\ decisions = {}
    /\ scope_validations = {}
    /\ now = 1
    /\ response = NoResponse
    /\ calls = [c \in Clients |-> Idle]

\* file changes recorded against sessions of any stored score
NextScore ==
    \/ Tick
    \/ CallInitialize
    \/ CallRecordFileChange

SpecScore == InitScore /\ [][NextScore]_vars

CallCreateTaskRead ==
    \E c \in Clients, featureId \in CreateTaskFeatureArgs, name \in CreateTaskNameArgs,
       status \in CreateTaskStatusArgs :
       CreateTaskRead(c, featureId, name, status, 1)

CallCreateTaskInsert == \E c \in Clients : CreateTaskInsert(c)

\* createTask calls of two callers, interleaved at the store
NextCreateRace ==
    \/ Tick
    \/ CallCreateTaskRead
    \/ CallCreateTaskInsert

SpecCreateRace == Init /\ [][NextCreateRace]_vars

\* calls on existing tasks; a blocked request names the other task
CallTaskStatusRead ==
    \E c \in Clients, taskId \in TaskIds, status \in TaskStatusArgs,
       blockingReason \in {Undefined, "dependency"}, blockedById \in {Undefined} \cup TaskIds :
       /\ (status = "blocked") <=> (blockingReason # Undefined)
       /\ (status = "blocked") <=> (blockedById # Undefined)
       /\ TaskStatusRead(c, taskId, status, blockingReason, blockedById)

CallTaskStatusWrite == \E c \in Clients : TaskStatusWrite(c)

\* updateTaskStatus calls of two callers, interleaved at the store
NextStatusRace ==
    \/ Tick
    \/ CallTaskStatusRead
    \/ CallTaskStatusWrite

SpecStatusRace == Init /\ [][NextStatusRace]_vars

CallSnapshotRead ==
    \E c \in Clients, sessionId \in SessionIdArgs, filePath \in FilePathArgs,
       content \in ContentArgs :
       SnapshotRead(c, sessionId, filePath, content)

CallSnapshotInsert == \E c \in Clients : SnapshotInsert(c)

\* createSnapshot calls of two callers, interleaved at the store
NextSnapshotRace ==
    \/ Tick
    \/ CallSnapshotRead
    \/ CallSnapshotInsert

SpecSnapshotRace == Init /\ [][NextSnapshotRace]_vars

\* the status a task or a feature is created with (the status parameter of
\* createTask and createFeature)
CreatedTaskStatusArgs == {"backlog", "in_progress", "completed"}
CreatedFeatureStatusArgs == {"planned", "completed"}

\* The store of Init, with the tasks and the features created in any of these
\* statuses.
InitCreated ==
    /\ tasks \in {[t \in TaskIds |->
                     [NewTask("f1", TaskNames[t], IF t = "t1" THEN 1 ELSE 2) EXCEPT !.status = st[t]]] :
                  st \in [TaskIds -> CreatedTaskStatusArgs]}
    /\ features \in {[f \in FeatureIds |-> [NewFeature EXCEPT !.status = st[f]]] :
                     st \in [FeatureIds -> CreatedFeatureStatusArgs]}
    /\ sessions = [id \in {SessionTokens[1]} |-> SessionRow("t1", "f1", 0)]
    /\ file_changes = {}
    /\ checkpoints = {}
    /\ snapshots = {}
    /\ decisions = {}
    /\ scope_validations = {}
    /\ now = 1
    /\ response = NoResponse
    /\ calls = [c \in Clients |-> Idle]

\* sessions that are initialized and ended over tasks and features of any status
NextHints ==
    \/ Tick
    \/ CallInitialize
    \/ CallEndSessionHandler

SpecHints == InitCreated /\ [][NextHints]_vars

(* ------------------- properties: session life cycle -------------------- *)

\* an argument the caller supplied
Supplied(x) == ~Falsy(x)

\* endSession, as either implementation of end-session.ts serves it, has succeeded
\* for the session: both, and nothing else, set end_time
SessionEnded(s) == s \in DOMAIN sessions /\ sessions[s].end_time # NullTime

\* the audit rows that name the session
SessionAuditRows(s) ==
    <<{r \in file_changes : r.session_id = s}, {r \in checkpoints : r.session_id = s},
      {r \in decisions : r.session_id = s}, {r \in snapshots : r.session_id = s}>>

\* this step is a tracking call carrying the session id
TrackingCall(s) ==
    \/ \E filePath \in FilePathArgs, changeType \in ChangeTypeArgs, scopeRead \in ScopeReads :
          RecordFileChange(s, filePath, changeType, scopeRead)
    \/ CreateCheckpoint(s)
    \/ LogDecision(s)
    \/ \E filePath \in FilePathArgs, content \in ContentArgs :
          CreateSnapshot(s, filePath, content)

\* this step is the endSession tool, served by either implementation
EndSessionCall(s, summary) == endSession(s, summary) \/ EndSessionHandler(s, summary)

\* C1: after endSession has succeeded for a session, every later recordFileChange,
\* createCheckpoint, logDecision or createSnapshot call carrying that sessionId
\* fails with the session-not-active failure and persists no row for that session.
C1_TrackingAfterEndSessionFails ==
    [][\A s \in DOMAIN sessions :
          (SessionEnded(s) /\ TrackingCall(s))
          => /\ response'.success = FALSE
             /\ response'.details = "Session is not active"
             /\ SessionAuditRows(s)' = SessionAuditRows(s)]_vars

\* C2: endSession on an existing active session succeeds and leaves it with
\* status = completed, end_time = the time of the call and summary = the supplied
\* summary; endSession on a session that does not exist or is not active fails and
\* leaves the sessions unchanged.
C2_EndSessionEffect ==
    [][\A s \in SessionIdArgs, summary \in SummaryArgs :
          (Supplied(summary) /\ EndSessionCall(s, summary))
          => IF s \in DOMAIN sessions /\ sessions[s].status = "active"
             THEN /\ response'.success = TRUE
                  /\ sessions'[s].status = "completed"
                  /\ sessions'[s].end_time = now'
                  /\ sessions'[s].summary = summary
             ELSE /\ response'.success = FALSE
                  /\ sessions' = sessions]_vars

\* C3: a session is finalized exactly once: once its status is completed or
\* abandoned no step changes its status, end_time or summary, a second endSession
\* on it fails, and end_time is null exactly while the status is active.
C3_FinalizedExactlyOnce ==
    /\ [](\A s \in DOMAIN sessions :
             (sessions[s].end_time = NullTime) <=> (sessions[s].status = "active"))
    /\ [][\A s \in DOMAIN sessions :
             /\ sessions[s].status \in {"completed", "abandoned"}
                => /\ sessions'[s].status = sessions[s].status
                   /\ sessions'[s].end_time = sessions[s].end_time
                   /\ sessions'[s].summary = sessions[s].summary
             /\ \A summary \in SummaryArgs :
                   (SessionEnded(s) /\ EndSessionCall(s, summary))
                   => response'.success = FALSE]_vars

(* ------------------- properties: status transitions -------------------- *)

MissingBlockingInfoDetails ==
    "Blocking reason and blocked by ID are required when setting status to 'blocked'"

\* C4: a transition of an existing Feature or Task to blocked with blockingReason or
\* blockedById missing fails with the missing-blocking-information failure and
\* leaves the entity (status, blocking fields, status_history) unchanged.
C4_MissingBlockingInfoFails ==
    [][/\ response'.op = "updateTaskStatus" =>
          \A id \in DOMAIN tasks, r \in BlockingReasonArgs, b \in TaskBlockedByArgs :
             ((Falsy(r) \/ Falsy(b)) /\ UpdateTaskStatus(id, "blocked", r, b))
             => (response' = TaskFail(MissingBlockingInfoDetails) /\ tasks' = tasks)
       /\ response'.op = "updateFeatureStatus" =>
          \A id \in DOMAIN features, r \in BlockingReasonArgs, b \in FeatureBlockedByArgs :
             ((Falsy(r) \/ Falsy(b)) /\ UpdateFeatureStatus(id, "blocked", r, b))
             => (response' = FeatureFail(MissingBlockingInfoDetails)
                 /\ features' = features)]_vars

\* a call was refused for missing blocking information
C4_Witness ==
    response \in {TaskFail(MissingBlockingInfoDetails), FeatureFail(MissingBlockingInfoDetails)}

\* the failures that come back from the store's constraints
TaskStoreErrors ==
    {TaskFail(TaskUpdateErrorDetails(e)) :
        e \in {"tasks_no_self_blocking", "tasks_blocking_requires_reason",
               "tasks_blocked_by_id_fkey"}}

FeatureStoreErrors ==
    {FeatureFail(FeatureUpdateErrorDetails(e)) :
        e \in {"features_no_self_blocking", "features_blocking_requires_reason",
               "features_blocked_by_id_fkey"}}

C6_UnknownBlockerAlwaysFails ==
    [][/\ response'.op = "updateTaskStatus" =>
          \A id \in DOMAIN tasks, st \in TaskStatusArgs, r \in BlockingReasonArgs,
            b \in TaskBlockedByArgs :
             (Supplied(b) /\ b \notin DOMAIN tasks /\ UpdateTaskStatus(id, st, r, b))
             => (response' = TaskFail("Blocking task does not exist") /\ tasks' = tasks)
       /\ response'.op = "updateFeatureStatus" =>
          \A id \in DOMAIN features, st \in FeatureStatusArgs, r \in BlockingReasonArgs,
            b \in FeatureBlockedByArgs :
             (Supplied(b) /\ b \notin DOMAIN features /\ UpdateFeatureStatus(id, st, r, b))
             => (response' = FeatureFail("Blocking feature does not exist")
                 /\ features' = features)]_vars

\* C6, amended: a transition to blocked with a reason and a blockedById that names
\* no entity of the same kind (a Task for a Task, a Feature for a Feature) fails
\* with the blocking-entity-not-found failure and the entity is unchanged; for a
\* target status other than blocked the blockedById is not looked up, and the call
\* is never refused with that failure.
C6_UnknownBlockerFailsWhenBlocking ==
    [][/\ response'.op = "updateTaskStatus" =>
          \A id \in DOMAIN tasks, st \in TaskStatusArgs, r \in BlockingReasonArgs,
            b \in TaskBlockedByArgs :
             (Supplied(b) /\ b \notin DOMAIN tasks /\ UpdateTaskStatus(id, st, r, b))
             => IF st = "blocked"
                THEN Supplied(r)
                     => (response' = TaskFail("Blocking task does not exist")
                         /\ tasks' = tasks)
                ELSE response' # TaskFail("Blocking task does not exist")
       /\ response'.op = "updateFeatureStatus" =>
          \A id \in DOMAIN features, st \in FeatureStatusArgs, r \in BlockingReasonArgs,
            b \in FeatureBlockedByArgs :
             (Supplied(b) /\ b \notin DOMAIN features /\ UpdateFeatureStatus(id, st, r, b))
             => IF st = "blocked"
                THEN Supplied(r)
                     => (response' = FeatureFail("Blocking feature does not exist")
                         /\ features' = features)
                ELSE response' # FeatureFail("Blocking feature does not exist")]_vars

\* a call to block a task was refused because the blocker is not a task
C6_Witness ==
    response = TaskFail("Blocking task does not exist")

\* the argument names the column's value; a NULL column is named by leaving the
\* argument out
SameAsCurrent(column, arg) == IF column = Null THEN ~Supplied(arg) ELSE arg = column

\* (targetStatus, blockedById, blockingReason) is the row's current triple
SameTriple(row, st, r, b) ==
    /\ row.status = st
    /\ SameAsCurrent(row.blocked_by_id, b)
    /\ SameAsCurrent(row.blocking_reason, r)

\* C7: a call whose (targetStatus, blockedById, blockingReason) equals the entity's
\* current triple, for every status including the non-blocked ones called with no
\* blocking arguments, succeeds as already-current and writes nothing.
C7_SameTripleIsAlreadyCurrent ==
    [][/\ response'.op = "updateTaskStatus" =>
          \A id \in DOMAIN tasks, st \in TaskStatusArgs, r \in BlockingReasonArgs,
            b \in TaskBlockedByArgs :
             (SameTriple(tasks[id], st, r, b) /\ UpdateTaskStatus(id, st, r, b))
             => /\ response'.success = TRUE
                /\ response'.title = "Task Status Already Current"
                /\ tasks' = tasks
       /\ response'.op = "updateFeatureStatus" =>
          \A id \in DOMAIN features, st \in FeatureStatusArgs, r \in BlockingReasonArgs,
            b \in FeatureBlockedByArgs :
             (SameTriple(features[id], st, r, b) /\ UpdateFeatureStatus(id, st, r, b))
             => /\ response'.success = TRUE
                /\ response'.title = "Feature Status Already Current"
                /\ features' = features]_vars

\* the status_history entry of a transition to st made at instant t with the
\* blocking reason r the row then holds
HistoryEntry(st, r, t) ==
    [status |-> st, changed_at |-> t, changed_by |-> "current_user",
     reason |-> IF r = Null THEN "Status updated" ELSE r]

\* the row holds the target status and the blocking pair: as supplied when
\* blocked, null otherwise
HoldsTarget(row, st, r, b) ==
    /\ row.status = st
    /\ row.blocking_reason = (IF st = "blocked" THEN r ELSE Null)
    /\ row.blocked_by_id = (IF st = "blocked" THEN b ELSE Null)

\* the call bumped status_updated_at and prepended its one entry
RecordsTransition(old, new, t) ==
    /\ new.status_updated_at = t
    /\ new.status_history =
          <<HistoryEntry(new.status, new.blocking_reason, t)>> \o old.status_history

\* the call left status_updated_at and status_history alone
RecordsNothing(old, new) ==
    /\ new.status_updated_at = old.status_updated_at
    /\ new.status_history = old.status_history

\* C8 as stated: every successful call whose triple is not the current one, one
\* that keeps status = blocked and changes the blocking pair included, sets the
\* status and the blocking pair, sets status_updated_at to now and prepends exactly
\* one status_history entry.
C8_EveryWriteRecordsTransition ==
    [][/\ (response'.op = "updateTaskStatus" /\ response'.title = "Task Status Updated") =>
          \A id \in DOMAIN tasks, st \in TaskStatusArgs, r \in BlockingReasonArgs,
            b \in TaskBlockedByArgs :
             (~SameTriple(tasks[id], st, r, b) /\ UpdateTaskStatus(id, st, r, b))
             => /\ HoldsTarget(tasks'[id], st, r, b)
                /\ RecordsTransition(tasks[id], tasks'[id], now')
       /\ (response'.op = "updateFeatureStatus"
             /\ response'.title = "Feature Status Updated") =>
          \A id \in DOMAIN features, st \in FeatureStatusArgs, r \in BlockingReasonArgs,
            b \in FeatureBlockedByArgs :
             (~SameTriple(features[id], st, r, b) /\ UpdateFeatureStatus(id, st, r, b))
             => /\ HoldsTarget(features'[id], st, r, b)
                /\ RecordsTransition(features[id], features'[id], now')]_vars

\* C8, amended: every successful call that is not already-current sets the status,
\* the blocking pair (null when not blocked) and updated_at; when it changes the
\* status it also sets status_updated_at to now and prepends exactly one
\* status_history entry {status, reason: the stored blocking reason or "Status
\* updated"}; when it keeps the status it leaves status_updated_at and
\* status_history as they were.
C8_StatusChangeRecordsTransition ==
    [][/\ (response'.op = "updateTaskStatus" /\ response'.title = "Task Status Updated") =>
          \A id \in DOMAIN tasks, st \in TaskStatusArgs, r \in BlockingReasonArgs,
            b \in TaskBlockedByArgs :
             UpdateTaskStatus(id, st, r, b)
             => /\ HoldsTarget(tasks'[id], st, r, b)
                /\ tasks'[id].updated_at = now'
                /\ IF tasks[id].status # st
                   THEN RecordsTransition(tasks[id], tasks'[id], now')
                   ELSE RecordsNothing(tasks[id], tasks'[id])
                /\ \A other \in DOMAIN tasks \ {id} : tasks'[other] = tasks[other]
       /\ (response'.op = "updateFeatureStatus"
             /\ response'.title = "Feature Status Updated") =>
          \A id \in DOMAIN features, st \in FeatureStatusArgs, r \in BlockingReasonArgs,
            b \in FeatureBlockedByArgs :
             UpdateFeatureStatus(id, st, r, b)
             => /\ HoldsTarget(features'[id], st, r, b)
                /\ features'[id].updated_at = now'
                /\ IF features[id].status # st
                   THEN RecordsTransition(features[id], features'[id], now')
                   ELSE RecordsNothing(features[id], features'[id])
                /\ \A other \in DOMAIN features \ {id} :
                      features'[other] = features[other]]_vars

\* a blocked task was written again as blocked, with another blocking pair
C8_Witness ==
    /\ response.op = "updateTaskStatus"
    /\ response.title = "Task Status Updated"
    /\ response.previous_status = "blocked"
    /\ response.new_status = "blocked"

(* --------------------- properties: entity invariants ------------------- *)

\* most recent first
HistoryOrdered(h) ==
    \A i, j \in 1..Len(h) : i < j => h[i].changed_at >= h[j].changed_at

HistoryMatchesRow(row) ==
    /\ HistoryOrdered(row.status_history)
    /\ row.status_history # <<>> => row.status_history[1].status = row.status

\* one more entry, in front, exactly when the status changed
HistoryStep(old, new) ==
    IF new.status # old.status
    THEN /\ Len(new.status_history) = Len(old.status_history) + 1
         /\ Tail(new.status_history) = old.status_history
         /\ new.status_history[1].status = new.status
    ELSE new.status_history = old.status_history

BlockingInvariant(id, row) ==
    /\ row.blocked_by_id # id
    /\ (row.blocking_reason = Null) <=> (row.blocked_by_id = Null)
    /\ row.status = "blocked" => (row.blocking_reason # Null /\ row.blocked_by_id # Null)
    /\ row.status # "blocked" => (row.blocking_reason = Null /\ row.blocked_by_id = Null)

ChangedTasks == {t \in DOMAIN tasks : tasks'[t] # tasks[t]}
ChangedFeatures == {f \in DOMAIN features : features'[f] # features[f]}

\* C11: a status call on one entity changes only that entity's row.  A feature
\* call changes no task row and no other feature row; a task call, also the one
\* that completes the last incomplete task of its feature, changes no feature row
\* and no other task row.
C11_TransitionChangesOnlyItsRow ==
    [][/\ DOMAIN tasks' = DOMAIN tasks
       /\ DOMAIN features' = DOMAIN features
       /\ response'.op = "updateTaskStatus" =>
             /\ features' = features
             /\ \/ ChangedTasks = {}
                \/ \E taskId \in ChangedTasks :
                      /\ ChangedTasks = {taskId}
                      /\ \E status \in TaskStatusArgs, blockingReason \in BlockingReasonArgs,
                            blockedById \in TaskBlockedByArgs :
                            UpdateTaskStatus(taskId, status, blockingReason, blockedById)
       /\ response'.op = "updateFeatureStatus" =>
             /\ tasks' = tasks
             /\ \/ ChangedFeatures = {}
                \/ \E featureId \in ChangedFeatures :
                      /\ ChangedFeatures = {featureId}
                      /\ \E status \in FeatureStatusArgs,
                            blockingReason \in BlockingReasonArgs,
                            blockedById \in FeatureBlockedByArgs :
                            UpdateFeatureStatus(featureId, status, blockingReason,
                                                blockedById)
      ]_vars

\* the last incomplete task of f1 has just been completed and the row of f1 is
\* what it was
C11_Witness ==
    /\ response.op = "updateTaskStatus"
    /\ \A t \in DOMAIN tasks : tasks[t].feature_id = "f1" => tasks[t].status = "completed"
    /\ tasks["t2"].status_updated_at = now
    /\ features["f1"] = NewFeature

(* ------------------ properties: results of a transition ---------------- *)

\* every task of the feature has status completed
AllTasksCompleted(featureId) ==
    \A t \in DOMAIN tasks : tasks[t].feature_id = featureId => tasks[t].status = "completed"

\* C12: when a task is transitioned to completed and after the write every task
\* of its feature is completed, the call returns a success result with the
\* previous status, new status completed, and the feature's task counts showing
\* that all tasks are completed.
C12_LastTaskCompletedSucceeds ==
    [][response'.op = "updateTaskStatus" =>
          \A taskId \in TaskIds, blockingReason \in BlockingReasonArgs,
             blockedById \in TaskBlockedByArgs :
             ( /\ UpdateTaskStatus(taskId, "completed", blockingReason, blockedById)
               /\ tasks'[taskId] # tasks[taskId]
               /\ AllTasksCompleted(tasks[taskId].feature_id)' )
             => /\ response'.success
                /\ response'.title = "Task Status Updated"
                /\ response'.previous_status = tasks[taskId].status
                /\ response'.new_status = "completed"
                /\ response'.feature_progress.completed_tasks
                      = response'.feature_progress.total_tasks
      ]_vars

\* C13: no partial apply.  Whenever a status call or endSession returns a failure
\* result, the persisted state is exactly what it was before the call: no status,
\* blocking field, status_history entry, end_time or summary of a failed call
\* survives.
C13_FailureLeavesStateUnchanged ==
    [][( /\ response'.op \in {"updateTaskStatus", "updateFeatureStatus", "endSession"}
         /\ ~response'.success )
       => UNCHANGED <<tasks, features, sessions, file_changes, checkpoints, snapshots,
                      decisions, scope_validations>>
      ]_vars

(* ----------------------- properties: tracking tools -------------------- *)

\* the session exists and is active
ActiveSession(s) == s \in DOMAIN sessions /\ sessions[s].status = "active"

\* C14: recordFileChange on an existing active session with the change in scope
\* persists exactly one FileChange row and sets last_file_change_at of the
\* session to now; on a missing or non-active session it fails with the invalid
\* session failure, writes no FileChange or ScopeValidation row and changes no
\* session field.
C14_RecordFileChangeEffect ==
    [][response'.op = "recordFileChange" =>
          \A s \in SessionIdArgs, filePath \in FilePathArgs, changeType \in ChangeTypeArgs :
             /\ (ActiveSession(s) /\ RecordFileChange(s, filePath, changeType, "row"))
                => /\ response'.success
                   /\ file_changes \subseteq file_changes'
                   /\ file_changes' \ file_changes =
                         {[session_id |-> s, file_path |-> filePath,
                           change_type |-> changeType, timestamp |-> now']}
                   /\ Cardinality(file_changes') = Cardinality(file_changes) + 1
                   /\ sessions' = [sessions EXCEPT ![s].last_file_change_at = now']
                   /\ scope_validations' = scope_validations
             /\ \A scopeRead \in ScopeReads :
                   (~ActiveSession(s) /\ RecordFileChange(s, filePath, changeType, scopeRead))
                   => /\ ~response'.success
                      /\ response'.title = "INVALID SESSION"
                      /\ UNCHANGED <<file_changes, scope_validations, sessions>>
      ]_vars

\* a file change of an active session has just been recorded
C14_Witness ==
    /\ response.op = "recordFileChange"
    /\ response.success
    /\ \E s \in DOMAIN sessions :
          /\ sessions[s].last_file_change_at = now
          /\ sessions[s].status = "active"
          /\ \E r \in file_changes : r.session_id = s /\ r.timestamp = now

\* C15: when the scope check of recordFileChange reports a violation, exactly one
\* ScopeValidation row with result violation is written for the session, no
\* FileChange row is written, last_file_change_at is unchanged, and the call
\* reports the change as not accepted.
C15_ScopeViolationEffect ==
    [][response'.op = "recordFileChange" =>
          \A s \in SessionIdArgs, filePath \in FilePathArgs, changeType \in ChangeTypeArgs,
             scopeRead \in ScopeReads :
             ( /\ ActiveSession(s)
               /\ ~verifyScopeCompliance(s, filePath, changeType, scopeRead).compliant
               /\ RecordFileChange(s, filePath, changeType, scopeRead) )
             => /\ scope_validations \subseteq scope_validations'
                /\ Cardinality(scope_validations') = Cardinality(scope_validations) + 1
                /\ \A r \in scope_validations' \ scope_validations :
                      r.session_id = s /\ r.result = "violation" /\ r.timestamp = now'
                /\ file_changes' = file_changes
                /\ sessions'[s].last_file_change_at = sessions[s].last_file_change_at
                /\ ~response'.success
                /\ response'.title = "SCOPE VIOLATION DETECTED"
      ]_vars

\* a scope violation of an active session has just been logged
C15_Witness ==
    /\ response.op = "recordFileChange"
    /\ response.title = "SCOPE VIOLATION DETECTED"
    /\ \E r \in scope_validations :
          /\ r.timestamp = now
          /\ r.result = "violation"
          /\ ActiveSession(r.session_id)

\* the step is a recordFileChange call on an active session whose scope check
\* reports a violation
ScopeViolationStep(s) ==
    /\ ActiveSession(s)
    /\ \E filePath \in FilePathArgs, changeType \in ChangeTypeArgs, scopeRead \in ScopeReads :
          /\ ~verifyScopeCompliance(s, filePath, changeType, scopeRead).compliant
          /\ RecordFileChange(s, filePath, changeType, scopeRead)

\* the penalty of a scope violation, floored at 0
ScoreAfterViolation(score) == IF score >= 10 THEN score - 10 ELSE 0

\* C16: compliance_score is 100 at session initialization, each scope violation
\* lowers the stored score by exactly 10 floored at 0, the score is always an
\* integer in 0..100, and no operation ever increases it.
C16_ComplianceScore ==
    [][/\ \A s \in DOMAIN sessions' :
            /\ sessions'[s].compliance_score \in 0..100
            /\ s \notin DOMAIN sessions => sessions'[s].compliance_score = 100
            /\ s \in DOMAIN sessions =>
                  sessions'[s].compliance_score <= sessions[s].compliance_score
       /\ response'.op = "recordFileChange" =>
             \A s \in DOMAIN sessions :
                ScopeViolationStep(s) =>
                   sessions'[s].compliance_score
                      = ScoreAfterViolation(sessions[s].compliance_score)
      ]_vars

(* ------------------------ properties: checkpoints ---------------------- *)

\* the later of two instants
Later(a, b) == IF a >= b THEN a ELSE b

\* the minutes elapsed at t since the later of last_checkpoint_at and start_time
\* (an unset last_checkpoint_at is earlier than every start_time)
SinceLastCheckpoint(data, t) == t - Later(data.last_checkpoint_at, data.start_time)

\* the session rows on which the test is compared: a session started at some
\* minute, with no checkpoint yet or a checkpoint made since
CheckpointedRows ==
    {d \in [start_time : 0..MaxTime, last_checkpoint_at : {NullTime} \cup 0..MaxTime] :
        d.last_checkpoint_at = NullTime \/ d.last_checkpoint_at >= d.start_time}

\* C17: checkpointNeeded is true exactly when at least 3 minutes have elapsed
\* since the later of the session's last_checkpoint_at and start_time; the
\* checkpoint-due flag of recordFileChange equals this value and never causes
\* the call to be rejected.
C17_CheckpointNeeded ==
    [][response'.op = "recordFileChange" =>
          /\ \A data \in CheckpointedRows, t \in 0..(MaxTime + CheckpointMinutes) :
                t >= Later(data.last_checkpoint_at, data.start_time)
                => (CheckpointDue(data, t) <=> SinceLastCheckpoint(data, t) >= 3)
          /\ \A s \in DOMAIN sessions :
                /\ checkpointNeeded(s, now') <=> SinceLastCheckpoint(sessions[s], now') >= 3
                /\ \A filePath \in FilePathArgs, changeType \in ChangeTypeArgs :
                      (ActiveSession(s) /\ RecordFileChange(s, filePath, changeType, "row"))
                      => /\ response'.success
                         /\ response'.needsCheckpoint
                              <=> SinceLastCheckpoint(sessions[s], now') >= 3
                         /\ \E r \in file_changes' \ file_changes : r.session_id = s
      ]_vars

\* a file change has just been recorded with the checkpoint-due flag raised
C17_Witness ==
    /\ response.op = "recordFileChange"
    /\ response.success
    /\ response.needsCheckpoint
    /\ \E r \in file_changes : r.timestamp = now /\ now - sessions[r.session_id].start_time >= 3

\* C18: a successful createCheckpoint persists one Checkpoint row and sets the
\* session's last_checkpoint_at to now, so that checkpointNeeded for the session
\* is false immediately afterwards and stays false until 3 minutes have passed
\* since that checkpoint, however long ago the session started; createCheckpoint
\* is accepted at any cadence.
C18_CheckpointResetsTheClock ==
    [][/\ response'.op = "createCheckpoint" =>
             \A s \in DOMAIN sessions :
                (ActiveSession(s) /\ CreateCheckpoint(s))
                => /\ response'.success
                   /\ checkpoints' \ checkpoints = {[session_id |-> s, timestamp |-> now']}
                   /\ sessions'[s].last_checkpoint_at = now'
                   /\ ~CheckpointDue(sessions'[s], now')
       /\ \A r \in checkpoints' :
             (r.session_id \in DOMAIN sessions' /\ now' - r.timestamp < 3)
             => ~CheckpointDue(sessions'[r.session_id], now')
      ]_vars

(* --------------------- properties: audit children ---------------------- *)

\* the session ids of the audit rows a step persists
NewAuditSessionIds ==
    {r.session_id : r \in file_changes' \ file_changes}
    \cup {r.session_id : r \in checkpoints' \ checkpoints}
    \cup {r.session_id : r \in snapshots' \ snapshots}
    \cup {r.session_id : r \in decisions' \ decisions}
    \cup {r.session_id : r \in scope_validations' \ scope_validations}

\* C19: every persisted audit child (FileChange, Checkpoint, Snapshot, Decision,
\* ScopeValidation) references exactly one existing session that was active when
\* the row was written; in particular a createCheckpoint call without the
\* sessionId of an existing active session persists nothing.
C19_AuditChildOwnedByActiveSession ==
    [][/\ \A id \in NewAuditSessionIds : ActiveSession(id)
       /\ response'.op = "createCheckpoint" =>
             \A sessionId \in SessionIdArgs \cup {Undefined} :
                (~ActiveSession(sessionId) /\ CreateCheckpoint(sessionId))
                => /\ ~response'.success
                   /\ checkpoints' = checkpoints
      ]_vars

\* C20: a successful logDecision persists exactly one Decision row for the
\* session and sets the session's last_decision_at to now; on a missing or
\* non-active session it fails and writes nothing.
C20_LogDecisionEffect ==
    [][response'.op = "logDecision" =>
          \A s \in SessionIdArgs :
             /\ (ActiveSession(s) /\ LogDecision(s))
                => /\ response'.success
                   /\ decisions \subseteq decisions'
                   /\ decisions' \ decisions = {[session_id |-> s, timestamp |-> now']}
                   /\ sessions'[s].last_decision_at = now'
             /\ (~ActiveSession(s) /\ LogDecision(s))
                => /\ ~response'.success
                   /\ UNCHANGED <<decisions, sessions, file_changes, checkpoints,
                                  snapshots, scope_validations>>
      ]_vars

(* -------------------------- properties: snapshots ---------------------- *)

\* the persisted snapshots of the triple (session, file, content)
SnapshotsOf(rows, sessionId, filePath, content) ==
    {r \in rows : r.session_id = sessionId /\ r.file_path = filePath /\ r.content = content}

\* C21: of two sequential createSnapshot calls with identical (sessionId,
\* filePath, content) on an active session, the second reports the duplicate
\* and writes no row, so exactly one snapshot of the triple is persisted; a call
\* whose content differs from every snapshot of that session and file persists
\* a new snapshot.
C21_DuplicateSnapshotSuppressed ==
    [][response'.op = "createSnapshot" =>
          \A s \in SessionIdArgs, filePath \in FilePathArgs, content \in ContentArgs :
             (ActiveSession(s) /\ CreateSnapshot(s, filePath, content))
             => /\ Cardinality(SnapshotsOf(snapshots', s, filePath, content)) = 1
                /\ IF SnapshotsOf(snapshots, s, filePath, content) # {}
                   THEN /\ response'.title = "Snapshot Already Exists"
                        /\ snapshots' = snapshots
                   ELSE /\ response'.success
                        /\ response'.title = "Snapshot Created"
                        /\ snapshots \subseteq snapshots'
                        /\ Cardinality(snapshots') = Cardinality(snapshots) + 1
                        /\ \E r \in snapshots' \ snapshots :
                              /\ r.session_id = s /\ r.file_path = filePath
                              /\ r.content = content /\ r.timestamp = now'
      ]_vars

\* the second of two identical calls has just been refused, with one snapshot of
\* the triple and a snapshot of other content of the same file persisted
C21_Witness ==
    /\ response.op = "createSnapshot"
    /\ response.title = "Snapshot Already Exists"
    /\ \E r1 \in snapshots, r2 \in snapshots :
          /\ r1.session_id = r2.session_id
          /\ r1.file_path = r2.file_path
          /\ r1.content # r2.content

\* C22: the already-current result of a status call and the duplicate result of
\* createSnapshot are success-with-no-op results: neither carries the failure
\* flag, and neither changes the store.
C22_NoOpResultsAreSuccesses ==
    [][( /\ response'.op \in {"updateTaskStatus", "updateFeatureStatus", "createSnapshot"}
         /\ response'.title \in {"Task Status Already Current",
                                 "Feature Status Already Current",
                                 "Snapshot Already Exists"} )
       => /\ response'.success
          /\ UNCHANGED <<tasks, features, sessions, snapshots>>
      ]_vars

(* ---------------------- properties: endSession hints ------------------- *)

\* the result tells the caller that no task of the feature remains incomplete
FeatureCompletedHint(r) == r.prompt \in {"FEATURE COMPLETION", "FEATURE ALREADY COMPLETED"}

C25_EndSessionChangesOnlyTheSession ==
    [][response'.op \in {"endSession", "endSessionHandler"} =>
          /\ features' = features
          /\ \A t \in DOMAIN tasks :
                /\ tasks'[t].status = tasks[t].status
                /\ tasks'[t].status_history = tasks[t].status_history
                /\ tasks'[t].blocking_reason = tasks[t].blocking_reason
                /\ tasks'[t].blocked_by_id = tasks[t].blocked_by_id
          /\ \A s \in SessionIdArgs, summary \in SummaryArgs :
                EndSessionCall(s, summary) =>
                   \A o \in DOMAIN sessions : o # s => sessions'[o] = sessions[o]
      ]_vars

(* ------------------------ properties: blocking cycles ------------------ *)

\* C26: only blocking cycles of length 1 are rejected.  A call that blocks an
\* entity by another existing entity of its kind, with a reason, succeeds
\* whatever that entity is blocked by, also when it closes a cycle; two such
\* calls reach a state in which A is blocked by B and B by A.
C26_OnlySelfBlockingRejected ==
    [][/\ response'.op = "updateTaskStatus" =>
             \A taskId \in TaskIds, blockedById \in TaskIds,
                blockingReason \in BlockingReasonArgs \ {Undefined} :
                ( /\ blockedById # taskId
                  /\ UpdateTaskStatus(taskId, "blocked", blockingReason, blockedById) )
                => /\ response'.success
                   /\ tasks'[taskId].status = "blocked"
                   /\ tasks'[taskId].blocked_by_id = blockedById
       /\ response'.op = "updateFeatureStatus" =>
             \A featureId \in FeatureIds, blockedById \in FeatureIds,
                blockingReason \in BlockingReasonArgs \ {Undefined} :
                ( /\ blockedById # featureId
                  /\ UpdateFeatureStatus(featureId, "blocked", blockingReason, blockedById) )
                => /\ response'.success
                   /\ features'[featureId].status = "blocked"
                   /\ features'[featureId].blocked_by_id = blockedById
      ]_vars

\* task t1 is blocked by t2 while t2 is blocked by t1, the second of the two
\* calls having just succeeded
C26_Witness ==
    /\ response.op = "updateTaskStatus"
    /\ response.success
    /\ tasks["t1"].status = "blocked" /\ tasks["t1"].blocked_by_id = "t2"
    /\ tasks["t2"].status = "blocked" /\ tasks["t2"].blocked_by_id = "t1"

(* ---------------------- properties: calls in flight -------------------- *)

\* C27: under any interleaving of createSnapshot calls with identical
\* (sessionId, filePath, content), at most one snapshot of the triple exists,
\* and once one exists every later identical call reports the duplicate and
\* inserts no row.
C27_OneSnapshotUnderInterleaving ==
    [][/\ \A s \in DOMAIN sessions, filePath \in FilePathArgs, content \in ContentArgs :
            Cardinality(SnapshotsOf(snapshots', s, filePath, content)) <= 1
       /\ \A c \in Clients, s \in DOMAIN sessions, filePath \in FilePathArgs,
             content \in ContentArgs :
             ( /\ SnapshotsOf(snapshots, s, filePath, content) # {}
               /\ ActiveSession(s)
               /\ SnapshotRead(c, s, filePath, content) )
             => /\ response'.op = "createSnapshot"
                /\ response'.title = "Snapshot Already Exists"
                /\ calls'[c] = Idle
      ]_vars

\* C28: under interleaved updateTaskStatus calls on a task, every call that
\* answers "Task Status Updated" with previous_status p and new_status q has
\* changed the stored status from p to q and added exactly one entry, for q, to
\* the task's status_history: p is the status immediately before its write.
C28_SuccessIsItsOwnHistoryEntry ==
    [][\A c \in Clients :
         ( /\ calls[c].op = "updateTaskStatus"
           /\ TaskStatusWrite(c)
           /\ response'.success
           /\ response'.title = "Task Status Updated" )
         => LET t == calls[c].params.taskId IN
            /\ response'.previous_status = tasks[t].status
            /\ tasks'[t].status = response'.new_status
            /\ Len(tasks'[t].status_history) = Len(tasks[t].status_history) + 1
            /\ Head(tasks'[t].status_history).status = response'.new_status
      ]_vars

\* C24: in every reachable state, also after interleaved create calls, no two
\* tasks of the same feature share a name.
C24_TaskNamesUniqueInFeature ==
    \A t, u \in DOMAIN tasks :
        (tasks[t].feature_id = tasks[u].feature_id /\ tasks[t].name = tasks[u].name)
        => t = u

\* blocking arguments that fit the requested status: a reason and another
\* existing row when the target is blocked, none otherwise
ValidBlockingArgs(rows, id, status, blockingReason, blockedById) ==
    IF status = "blocked"
    THEN ~Falsy(blockingReason) /\ blockedById \in DOMAIN rows \ {id}
    ELSE blockingReason = Undefined /\ blockedById = Undefined

\* C29: no lifecycle ordering is enforced: from any current status a call that
\* asks for another status of the enum, with valid blocking arguments when the
\* target is blocked, succeeds and leaves the entity in the requested status,
\* also when the current status is completed.
C29_AnyTransitionSucceeds ==
    [][/\ response'.op = "updateTaskStatus" =>
            \A taskId \in TaskIds, status \in TaskStatusArgs,
               blockingReason \in BlockingReasonArgs, blockedById \in TaskBlockedByArgs :
               ( /\ status # tasks[taskId].status
                 /\ ValidBlockingArgs(tasks, taskId, status, blockingReason, blockedById)
                 /\ UpdateTaskStatus(taskId, status, blockingReason, blockedById) )
               => (response'.success /\ tasks'[taskId].status = status)
       /\ response'.op = "updateFeatureStatus" =>
            \A featureId \in FeatureIds, status \in FeatureStatusArgs,
               blockingReason \in BlockingReasonArgs, blockedById \in FeatureBlockedByArgs :
               ( /\ status # features[featureId].status
                 /\ ValidBlockingArgs(features, featureId, status, blockingReason, blockedById)
                 /\ UpdateFeatureStatus(featureId, status, blockingReason, blockedById) )
               => (response'.success /\ features'[featureId].status = status)
      ]_vars

(* --------------------- properties: reported score ---------------------- *)

====
